---- MODULE Spec2Model ----
(***************************************************************************)
(* AetherForge: the fetch/cache pipeline of tools/web.py and the           *)
(* tool-augmented conversation loop of agent.py.                           *)
(*                                                                         *)
(* Strings are sequences of one-character strings.  Python dicts are       *)
(* records; a missing key is a field that is not in the DOMAIN.            *)
(***************************************************************************)
EXTENDS Integers, Sequences, FiniteSets, TLC

(* ------------------------------ bounds --------------------------------- *)
MaxTime == 2          \* the clock runs over 0..MaxTime seconds
MaxAge == 1           \* max_age_sec arguments run over 0..MaxAge
MaxRounds == 2        \* max_rounds arguments run over -1..MaxRounds
MaxToolCalls == 3     \* tool calls one conversation's model may request

(* -------------------------- program constants -------------------------- *)
TitleLimit == 512         \* cache_put keeps title[:512]
SnippetLimit == 2000      \* _call_tool keeps text[:2000]
DefaultMaxAge == 86400    \* fetch_url(max_age_sec=24 * 3600)
DefaultTimeout == 15      \* fetch_url(timeout=15)

(* ------------------------------ strings -------------------------------- *)
Str(n, ch) == [i \in 1..n |-> ch]
Take(s, n) == IF Len(s) <= n THEN s ELSE SubSeq(s, 1, n)   \* s[:n], n >= 0
OrEmpty(s) == IF s = <<>> THEN <<>> ELSE s                 \* (s or "") on a str
PyGet(d, k, dflt) == IF k \in DOMAIN d THEN d[k] ELSE dflt \* d.get(k, dflt)

Urls == {"A", "B"}
NoUrl == ""                       \* args.get("url", "")
AllUrls == Urls \cup {NoUrl}

(* ------------------------------- JSON ---------------------------------- *)
\* A meta dict is a sequence of items [kt, k, v]: kt is the type of the key
\* ("str" or "int"), k its text, v a string value.  json.dumps writes every
\* key as a JSON string; json.loads gives every key back as a str.
JsonNull == [kind |-> "null"]
DumpItem(it) == [kt |-> "str", k |-> it.k, v |-> it.v]
json_dumps(meta) == [kind |-> "json", items |-> [i \in 1..Len(meta) |-> DumpItem(meta[i])]]
json_loads(j) == j.items

EmptyMeta == <<>>
MetaKV == <<[kt |-> "str", k |-> "k", v |-> "v"]>>
MetaIntKey == <<[kt |-> "int", k |-> "1", v |-> "v"]>>
MetaHeaders == <<[kt |-> "str", k |-> "headers", v |-> "h"]>>
MetaError == <<[kt |-> "str", k |-> "error", v |-> "e"]>>

(* ----------------------------- cache store ----------------------------- *)
\* One row of table cached_pages per url (url TEXT PRIMARY KEY).
NoRow == [kind |-> "absent"]
None == [kind |-> "None"]

cache_get(c, url) ==
    IF c[url] = NoRow THEN None
    ELSE LET row == c[url] IN
         [url |-> url,
          fetched_at |-> row.fetched_at,
          status |-> row.status,
          title |-> OrEmpty(row.title),
          text |-> OrEmpty(row.text),
          meta |-> IF row.meta_json # JsonNull THEN json_loads(row.meta_json) ELSE EmptyMeta]

cache_put_title_bad(t) == t
cache_put_title(t) == Take(OrEmpty(t), TitleLimit)

cache_put(c, url, data, clock) ==
    [c EXCEPT ![url] =
        [kind |-> "row",
         fetched_at |-> PyGet(data, "fetched_at", clock),
         status |-> PyGet(data, "status", 200),
         title |-> cache_put_title(PyGet(data, "title", <<>>)),
         text |-> OrEmpty(PyGet(data, "text", <<>>)),
         meta_json |-> IF PyGet(data, "meta", EmptyMeta) # EmptyMeta
                       THEN json_dumps(data.meta) ELSE JsonNull]]

cache_clear_bad(c) == [u \in DOMAIN c |-> IF u = "A" THEN NoRow ELSE c[u]]
cache_clear(c) == [u \in DOMAIN c |-> NoRow]

is_fresh_bad(clock, fetched_at, max_age_sec) == (clock - fetched_at) <= max_age_sec
is_fresh(clock, fetched_at, max_age_sec) == (clock - fetched_at) < max_age_sec

(* ------------------------------ extraction ----------------------------- *)
\* An HTML document is described by what each extraction pass finds in it:
\* title (the <title> regex), main (trafilatura.extract; ExtractRaises when the
\* library raises) and stripped (the tag-stripping pass).
Raises == [kind |-> "raises"]
Doc(title, main, stripped) == [title |-> title, main |-> main, stripped |-> stripped]
DocGood == Doc(<<"T">>, [kind |-> "text", s |-> <<"x">>], <<"T", " ", "x">>)
DocNav == Doc(<<>>, [kind |-> "text", s |-> <<>>], <<"y">>)
DocEmpty == Doc(<<>>, [kind |-> "text", s |-> <<>>], <<>>)
DocBoom == Doc(<<"T">>, Raises, <<"z">>)

_extract_title(html) == html.title
_strip_tags(html) == html.stripped

clean_html(html) ==
    IF html.main = Raises THEN [raised |-> TRUE, title |-> <<>>, text |-> <<>>]
    ELSE [raised |-> FALSE,
          title |-> _extract_title(html),
          text |-> IF OrEmpty(html.main.s) # <<>> THEN html.main.s ELSE _strip_tags(html)]

(* ------------------------------- fetcher ------------------------------- *)
\* What the world does during one fetch_url call: whether the cache read
\* succeeds, what requests.get does, whether the cache write succeeds.
HttpError == [kind |-> "error"]
Resp(status, html) == [kind |-> "response", status |-> status, html |-> html]
HttpOutcomes ==
    {HttpError, Resp(200, DocGood), Resp(200, DocNav), Resp(200, DocEmpty),
     Resp(200, DocBoom), Resp(404, DocGood)}
Env(readOk, http, writeOk) == [readOk |-> readOk, http |-> http, writeOk |-> writeOk]
Envs ==
    {Env(FALSE, HttpError, TRUE), Env(TRUE, Resp(200, DocGood), FALSE)}
    \cup {Env(TRUE, h, TRUE) : h \in HttpOutcomes}
\* requests.get("") raises MissingSchema before any request is sent.
EnvsFor(url) == IF url = NoUrl THEN {e \in Envs : e.http = HttpError} ELSE Envs

FailureRecord_bad(url, clock) ==
    [url |-> url, status |-> 0, title |-> <<>>, text |-> <<MetaError[1].v>>,
     fetched_at |-> clock, meta |-> MetaError]
FailureRecord(url, clock) ==
    [url |-> url, status |-> 0, title |-> <<>>, text |-> <<>>,
     fetched_at |-> clock, meta |-> MetaError]

should_cache_always(use_cache, status, text) == status = 200 /\ text # <<>>
should_cache_bad(use_cache, status, text) == use_cache /\ text # <<>>
should_cache(use_cache, status, text) == use_cache /\ status = 200 /\ text # <<>>

\* The outcome of a call: raised, the value returned, the cache afterwards,
\* the number of HTTP GETs sent and of cache_put calls made.
Outcome(raised, value, c, gets, puts) ==
    [raised |-> raised, value |-> value, cache |-> c, gets |-> gets, puts |-> puts]

fetch_request(c, clock, url, use_cache, env) ==
    IF env.http = HttpError
    THEN Outcome(FALSE, FailureRecord(url, clock), c, 1, 0)
    ELSE LET cleaned == clean_html(env.http.html)
             data == [url |-> url, status |-> env.http.status,
                      title |-> cleaned.title, text |-> cleaned.text,
                      fetched_at |-> clock, meta |-> MetaHeaders]
         IN IF cleaned.raised
            THEN Outcome(FALSE, FailureRecord(url, clock), c, 1, 0)
            ELSE IF should_cache(use_cache, data.status, data.text)
            THEN IF env.writeOk
                 THEN Outcome(FALSE, data, cache_put(c, url, data, clock), 1, 1)
                 ELSE Outcome(FALSE, FailureRecord(url, clock), c, 1, 1)
            ELSE Outcome(FALSE, data, c, 1, 0)

fetch_url(c, clock, url, use_cache, max_age_sec, env) ==
    IF use_cache /\ ~env.readOk
    THEN Outcome(TRUE, None, c, 0, 0)
    ELSE LET cached == IF use_cache THEN cache_get(c, url) ELSE None
         IN IF use_cache /\ cached # None
               /\ is_fresh(clock, cached.fetched_at, max_age_sec)
            THEN Outcome(FALSE, cached, c, 0, 0)
            ELSE fetch_request(c, clock, url, use_cache, env)

(* ------------------------------- state --------------------------------- *)
VARIABLES
    cache,        \* table cached_pages: url -> row or NoRow
    now,          \* time.time(), in seconds
    last,         \* the latest call of the web module and what it returned
    pc,           \* where chat_with_tools stands
    max_rounds,   \* its max_rounds argument
    rounds,       \* model calls made so far (loop iterations entered)
    pending,      \* tool calls of the current response not yet handled
    messages,     \* the message history
    sources,      \* the sources list
    final,        \* the returned answer
    response,     \* the latest model response
    dispatched,   \* every _call_tool call made, with its result, in order
    requested     \* every tool call the model requested, in order

webVars == <<cache, now, last>>
agentVars == <<pc, max_rounds, rounds, pending, messages, sources, final,
               response, dispatched, requested>>
vars == <<cache, now, last, pc, max_rounds, rounds, pending, messages, sources,
          final, response, dispatched, requested>>

NoText == [kind |-> "None"]        \* message.content is None
NoResponse == [tool_calls |-> <<>>, content |-> NoText]

Call(op, url, use_cache, max_age_sec, page, fa, out, http) ==
    [op |-> op, url |-> url, use_cache |-> use_cache, max_age_sec |-> max_age_sec,
     page |-> page, fetched_at |-> fa, at |-> now, raised |-> out.raised,
     value |-> out.value, gets |-> out.gets, puts |-> out.puts, http |-> http]
NoOutcome == Outcome(FALSE, None, <<>>, 0, 0)
NoHttp == [kind |-> "none"]

Init ==
    /\ cache = [u \in AllUrls |-> NoRow]
    /\ now = 0
    /\ last = Call("none", NoUrl, FALSE, 0, None, 0, NoOutcome, NoHttp)
    /\ pc = "idle"
    /\ max_rounds = 0
    /\ rounds = 0
    /\ pending = <<>>
    /\ messages = <<>>
    /\ sources = <<>>
    /\ final = NoText
    /\ response = NoResponse
    /\ dispatched = <<>>
    /\ requested = <<>>

(* ----------------------- calls of the web module ----------------------- *)
Page(fa, status, title, text, meta) ==
    [fetched_at |-> fa, status |-> status, title |-> title, text |-> text, meta |-> meta]
FullTitle == Str(TitleLimit, "t")          \* a title of exactly 512 characters
LongTitle == Str(TitleLimit + 1, "t")      \* a title one character too long
Pages ==
    {Page(now, 200, <<"E", "x">>, <<"h", "i">>, MetaKV),
     Page(0, 404, LongTitle, <<>>, EmptyMeta),
     Page(now, 200, FullTitle, <<"h", "i">>, MetaIntKey)}

FetchUrlCall ==
    \E url \in Urls, use_cache \in BOOLEAN, max_age_sec \in 0..MaxAge :
      \E env \in EnvsFor(url) :
        LET out == fetch_url(cache, now, url, use_cache, max_age_sec, env)
        IN /\ cache' = out.cache
           /\ last' = Call("fetch_url", url, use_cache, max_age_sec, None, 0, out,
                           IF out.gets = 1 THEN env.http ELSE NoHttp)
           /\ UNCHANGED <<now, agentVars>>

CachePutCall ==
    \E url \in Urls, page \in Pages :
        /\ cache' = cache_put(cache, url, page, now)
        /\ last' = Call("cache_put", url, FALSE, 0, page, 0, NoOutcome, NoHttp)
        /\ UNCHANGED <<now, agentVars>>

CacheGetCall ==
    \E url \in Urls :
        /\ last' = Call("cache_get", url, FALSE, 0, None, 0,
                        Outcome(FALSE, cache_get(cache, url), cache, 0, 0), NoHttp)
        /\ UNCHANGED <<cache, now, agentVars>>

CacheClearCall ==
    /\ cache' = cache_clear(cache)
    /\ last' = Call("cache_clear", NoUrl, FALSE, 0, None, 0, NoOutcome, NoHttp)
    /\ UNCHANGED <<now, agentVars>>

IsFreshCall ==
    \E fetched_at \in 0..MaxTime, max_age_sec \in 0..MaxAge :
        /\ last' = Call("is_fresh", NoUrl, FALSE, max_age_sec, None, fetched_at,
                        Outcome(FALSE, [b |-> is_fresh(now, fetched_at, max_age_sec)],
                                cache, 0, 0), NoHttp)
        /\ UNCHANGED <<cache, now, agentVars>>

Tick ==
    /\ now < MaxTime
    /\ now' = now + 1
    /\ last' = Call("tick", NoUrl, FALSE, 0, None, 0, NoOutcome, NoHttp)
    /\ UNCHANGED <<cache, agentVars>>

NextWeb ==
    \/ FetchUrlCall
    \/ CachePutCall
    \/ CacheGetCall
    \/ CacheClearCall
    \/ IsFreshCall
    \/ Tick

SpecWeb == Init /\ [][NextWeb]_vars

(* ---------------------------- tool dispatch ---------------------------- *)
\* The arguments payload of a tool call, by what json.loads makes of it:
\* "invalid" raises in json.loads, "list" and "null" parse to a non-dict,
\* "object" parses to the dict obj.  A timeout value is [conv, n]: whether
\* int() accepts it and the integer it gives.
ArgsInvalid == [kind |-> "invalid", obj |-> [none |-> 0]]
ArgsList == [kind |-> "list", obj |-> [none |-> 0]]
ArgsNull == [kind |-> "null", obj |-> [none |-> 0]]
ArgsObject(obj) == [kind |-> "object", obj |-> obj]
EmptyDict == [kind |-> "object", obj |-> [none |-> 0]]
BadTimeout == [conv |-> FALSE, n |-> 0]
IntTimeout(n) == [conv |-> TRUE, n |-> n]

json_loads_args(args_json) == IF args_json.kind = "invalid" THEN EmptyDict ELSE args_json
IsDict(args) == args.kind = "object"

quote_plus(q) == [i \in 1..Len(q) |-> IF q[i] = " " THEN "+" ELSE q[i]]
web_search(query) ==
    <<[title |-> "Wikipedia search", url |-> <<"wikipedia?search=", quote_plus(query)>>],
      [title |-> "Hacker News (Algolia) search", url |-> <<"hn.algolia?q=", quote_plus(query)>>]>>

unknown_tool_bad(name) == [error |-> <<"unknown tool">>]
unknown_tool(name) == [error |-> <<"unknown tool ", name>>]

snippet_bad(text) == text
snippet(text) == Take(text, SnippetLimit)

_call_tool(c, clock, name, args_json, env) ==
    LET args == json_loads_args(args_json) IN
    IF name = "web_search"
    THEN IF ~IsDict(args) THEN Outcome(TRUE, None, c, 0, 0)
         ELSE Outcome(FALSE, [results |-> web_search(PyGet(args.obj, "query", <<>>))], c, 0, 0)
    ELSE IF name = "fetch_url"
    THEN IF ~IsDict(args) THEN Outcome(TRUE, None, c, 0, 0)
         ELSE IF ~PyGet(args.obj, "timeout", IntTimeout(DefaultTimeout)).conv
         THEN Outcome(TRUE, None, c, 0, 0)
         ELSE LET out == fetch_url(c, clock, PyGet(args.obj, "url", NoUrl), TRUE,
                                   DefaultMaxAge, env)
              IN IF out.raised THEN out
                 ELSE Outcome(FALSE,
                              [url |-> out.value.url, status |-> out.value.status,
                               title |-> out.value.title, text |-> snippet(out.value.text),
                               fetched_at |-> out.value.fetched_at],
                              out.cache, out.gets, out.puts)
    ELSE Outcome(FALSE, unknown_tool(name), c, 0, 0)

(* -------------------------- conversation loop -------------------------- *)
Whitespace == {" ", "\n"}
RECURSIVE lstrip(_)
lstrip(s) == IF s # <<>> /\ Head(s) \in Whitespace THEN lstrip(Tail(s)) ELSE s
RECURSIVE rstrip(_)
rstrip(s) == IF s # <<>> /\ s[Len(s)] \in Whitespace THEN rstrip(SubSeq(s, 1, Len(s) - 1)) ELSE s
strip_bad(s) == lstrip(s)
strip(s) == rstrip(lstrip(s))

Text(s) == [kind |-> "text", s |-> s]
ContentOrEmpty(content) == IF content = NoText THEN <<>> ELSE OrEmpty(content.s)
Fallback == Text(<<"I hit the tool-call limit before finishing. Try a narrower query.">>)
SystemPrompt == "You are AetherForge, a local assistant. Use tools when you need fresh information, then cite sources."

track_source_bad(srcs, name, result) ==
    IF name = "fetch_url" /\ "url" \in DOMAIN result /\ result.url # NoUrl
       /\ \A i \in 1..Len(srcs) : srcs[i] # result.url
    THEN Append(srcs, result.url) ELSE srcs
track_source(srcs, name, result) ==
    IF name = "fetch_url" /\ "url" \in DOMAIN result /\ result.url # NoUrl
    THEN Append(srcs, result.url) ELSE srcs

tool_message_bad(call, result) ==
    [role |-> "tool", tool_call_id |-> 0, name |-> call.name, content |-> result]
tool_message(call, result) ==
    [role |-> "tool", tool_call_id |-> call.id, name |-> call.name, content |-> result]

\* "for _ in range(max_rounds)" has another iteration.
in_range_bad(n, mr) == n <= mr
in_range(n, mr) == n < mr

\* After a call: the next call of the same response, or the next round.
after_call_bad(rest) == "loop"
after_call(rest) == IF rest = <<>> THEN "loop" ELSE "tools"

\* What a model may ask for.
ToolRequests ==
    {[name |-> "fetch_url", arguments |-> ArgsObject([url |-> "A"])],
     [name |-> "fetch_url", arguments |-> ArgsObject([url |-> "B", timeout |-> IntTimeout(30)])],
     [name |-> "fetch_url", arguments |-> ArgsObject([url |-> "A", timeout |-> BadTimeout])],
     [name |-> "fetch_url", arguments |-> ArgsList],
     [name |-> "fetch_url", arguments |-> ArgsInvalid],
     [name |-> "web_search", arguments |-> ArgsObject([query |-> <<"a", " ", "b">>])],
     [name |-> "web_search", arguments |-> ArgsNull],
     [name |-> "bogus", arguments |-> ArgsList]}
Contents == {NoText, Text(<<>>), Text(<<" ">>), Text(<<"o", "k">>),
             Text(<<" ", "o", " ", "k", "\n">>)}
Numbered(reqs, base) ==
    [i \in 1..Len(reqs) |-> [id |-> base + i, name |-> reqs[i].name,
                             arguments |-> reqs[i].arguments]]
SeqsUpTo(S, n) == UNION {[1..k -> S] : k \in 1..n}

Start ==
    /\ pc = "idle"
    /\ \E mr \in -1..MaxRounds :
        /\ max_rounds' = mr
        /\ messages' = <<[role |-> "system", content |-> SystemPrompt],
                         [role |-> "user", content |-> "user_prompt"]>>
        /\ sources' = <<>>
        /\ pc' = "loop"
        /\ UNCHANGED <<webVars, rounds, pending, final, response, dispatched, requested>>

\* client.chat.completions.create(...) returns a response asking for tools.
ModelAsksTools ==
    /\ pc = "loop" /\ in_range(rounds, max_rounds)
    /\ \E reqs \in SeqsUpTo(ToolRequests, MaxToolCalls - Len(requested)) :
        LET calls == Numbered(reqs, Len(requested)) IN
        /\ response' = [tool_calls |-> calls, content |-> NoText]
        /\ pending' = calls
        /\ requested' = requested \o calls
        /\ rounds' = rounds + 1
        /\ pc' = "tools"
        /\ UNCHANGED <<webVars, max_rounds, messages, sources, final, dispatched>>

\* ... or a response without tool calls: the answer.
ModelAnswers ==
    /\ pc = "loop" /\ in_range(rounds, max_rounds)
    /\ \E content \in Contents :
        /\ response' = [tool_calls |-> <<>>, content |-> content]
        /\ final' = Text(strip(ContentOrEmpty(content)))
        /\ rounds' = rounds + 1
        /\ pc' = "done"
        /\ UNCHANGED <<webVars, max_rounds, pending, messages, sources, dispatched, requested>>

\* ... or raises; nothing in chat_with_tools catches it.
ModelFails ==
    /\ pc = "loop" /\ in_range(rounds, max_rounds)
    /\ rounds' = rounds + 1
    /\ pc' = "model_error"
    /\ UNCHANGED <<webVars, max_rounds, pending, messages, sources, final, response,
                   dispatched, requested>>

\* One iteration of "for call in choice.tool_calls".
HandleToolCall ==
    /\ pc = "tools"
    /\ LET call == Head(pending) IN
       \E env \in EnvsFor(PyGet(call.arguments.obj, "url", NoUrl)) :
        LET out == _call_tool(cache, now, call.name, call.arguments, env) IN
        /\ dispatched' = Append(dispatched, [id |-> call.id, name |-> call.name,
                                             raised |-> out.raised, result |-> out.value,
                                             gets |-> out.gets, puts |-> out.puts])
        /\ cache' = out.cache
        /\ IF out.raised
           THEN /\ pc' = "tool_error"
                /\ UNCHANGED <<pending, sources, messages>>
           ELSE /\ sources' = track_source(sources, call.name, out.value)
                /\ messages' = Append(messages, tool_message(call, out.value))
                /\ pending' = Tail(pending)
                /\ pc' = after_call(Tail(pending))
        /\ UNCHANGED <<now, last, max_rounds, rounds, final, response, requested>>

\* range(max_rounds) is exhausted.
RoundLimit ==
    /\ pc = "loop" /\ ~in_range(rounds, max_rounds)
    /\ final' = Fallback
    /\ pc' = "limit"
    /\ UNCHANGED <<webVars, max_rounds, rounds, pending, messages, sources, response,
                   dispatched, requested>>

NextAgent ==
    \/ Start
    \/ ModelAsksTools
    \/ ModelAnswers
    \/ ModelFails
    \/ HandleToolCall
    \/ RoundLimit

Spec == Init /\ [][NextAgent]_vars

(* ======================= properties: agent.py ========================= *)
Returned == pc \in {"done", "limit"}
Ended == pc \in {"done", "limit", "tool_error", "model_error"}

RECURSIVE FetchedUrls(_)
\* The non-empty urls carried by the results of the fetch_url calls of a log.
FetchedUrls(log) ==
    IF log = <<>> THEN <<>>
    ELSE LET e == Head(log) IN
         IF e.name = "fetch_url" /\ ~e.raised /\ e.result.url # NoUrl
         THEN <<e.result.url>> \o FetchedUrls(Tail(log))
         ELSE FetchedUrls(Tail(log))

\* t is s without its leading and trailing whitespace.
IsTrimOf(t, s) ==
    \E i \in 0..Len(s) : \E j \in 0..(Len(s) - i) :
        /\ \A k \in 1..i : s[k] \in Whitespace
        /\ \A k \in (Len(s) - j + 1)..Len(s) : s[k] \in Whitespace
        /\ t = SubSeq(s, i + 1, Len(s) - j)
        /\ t = <<>> \/ (t[1] \notin Whitespace /\ t[Len(t)] \notin Whitespace)

\* C1 (as claimed): when every response of the model asks for at least one
\* tool call, the conversation ends only by returning the fallback message
\* after exactly max_rounds model calls (max_rounds a number of rounds, >= 0).
C1_ToolLoopReturnsFallback ==
    (max_rounds >= 0 /\ pc \in {"limit", "tool_error"}) =>
        (pc = "limit" /\ rounds = max_rounds /\ final = Fallback
         /\ sources = FetchedUrls(dispatched))

FetchA == [name |-> "fetch_url", arguments |-> ArgsObject([url |-> "A"])]
FetchB == [name |-> "fetch_url",
           arguments |-> ArgsObject([url |-> "B", timeout |-> IntTimeout(30)])]
\* Round 1 asks for fetch_url on A then B, round 2 answers in plain text.
ScenarioAB ==
    /\ pc = "done" /\ rounds = 2 /\ response.content # NoText
    /\ requested = Numbered(<<FetchA, FetchB>>, 0)

SourcesAreFetchedUrls ==
    /\ \A i \in 1..Len(dispatched) :
          dispatched[i].id = requested[i].id /\ dispatched[i].name = requested[i].name
    /\ Returned => (Len(dispatched) = Len(requested)
                    /\ sources = FetchedUrls(dispatched))

\* C2 (as claimed): the returned sources are the non-empty urls of the
\* dispatched fetch_url results, in request order, duplicates kept; in the
\* A-then-B scenario sources = [A, B] and the answer is the round-2 text.
C2_Original ==
    /\ SourcesAreFetchedUrls
    /\ ScenarioAB => (sources = <<"A", "B">> /\ final = response.content)

\* C2 (amended): the same, the answer being the round-2 text without its
\* leading and trailing whitespace.
C2_SourcesInRequestOrder ==
    /\ SourcesAreFetchedUrls
    /\ ScenarioAB => (sources = <<"A", "B">> /\ final.kind = "text"
                      /\ IsTrimOf(final.s, response.content.s))

C2_Witness ==
    /\ ScenarioAB /\ sources = <<"A", "B">>
    /\ response.content = Text(<<" ", "o", " ", "k", "\n">>)
    /\ final = Text(<<"o", " ", "k">>)

C3_State ==
    /\ (pc \in {"tools", "loop"} /\ rounds > 0) => response.tool_calls # <<>>
    /\ pc = "done" =>
          /\ response.tool_calls = <<>>
          /\ final.kind = "text"
          /\ IsTrimOf(final.s, ContentOrEmpty(response.content))
          /\ response.content = NoText => final.s = <<>>
          /\ sources = FetchedUrls(dispatched)
C3_Step ==
    /\ (pc # "done" /\ pc' = "done") =>
          (rounds' = rounds + 1 /\ sources' = sources /\ dispatched' = dispatched
           /\ cache' = cache)
    /\ pc = "done" => UNCHANGED <<rounds, dispatched, sources, final, cache, pc>>

\* C3: a response without tool calls ends the loop in DONE, the answer is the
\* response's text without leading and trailing whitespace ("" when it has no
\* content), the sources are those accumulated, and no model call and no tool
\* dispatch follows.
C3_PlainResponseIsDone == []C3_State /\ [][C3_Step]_vars

C3_Witness ==
    /\ pc = "done" /\ rounds = 2 /\ Len(dispatched) > 0
    /\ response.content = Text(<<" ", "o", " ", "k", "\n">>)
    /\ final = Text(<<"o", " ", "k">>)

\* C5 (as claimed): no tool dispatch raises, whatever the tool name and the
\* arguments payload, so no failure of tool execution escapes the loop.
C5_DispatchNeverRaises ==
    /\ pc # "tool_error"
    /\ \A i \in 1..Len(dispatched) : ~dispatched[i].raised

(* ===================== properties: tools/web.py ======================= *)
WellFormed(v) ==
    /\ {"url", "status", "title", "text", "fetched_at"} \subseteq DOMAIN v
    /\ v.status \in Nat /\ v.fetched_at \in Nat

\* C4 (as claimed): fetch_url never raises; every call returns a record with
\* url, status, title, text and fetched_at.
C4_FetchNeverRaises ==
    last.op = "fetch_url" => (~last.raised /\ WellFormed(last.value))

HasRow(c, url) == c[url] # NoRow
Age(c, clock, url) == clock - c[url].fetched_at

\* C6 (as claimed): a fetch_url call with use_cache, made while the cache holds
\* a row for the url younger than max_age_sec, returns that row as cache_get
\* gives it, sends no HTTP request and leaves the cache as it was.
C6_CacheHit ==
    [][(/\ last'.op = "fetch_url" /\ last'.use_cache
        /\ HasRow(cache, last'.url)
        /\ Age(cache, now, last'.url) < last'.max_age_sec)
       => (/\ ~last'.raised
           /\ last'.value = cache_get(cache, last'.url)
           /\ last'.gets = 0
           /\ cache' = cache)]_vars

FromRequest(call) ==
    \/ call.value = FailureRecord(call.url, call.at)
    \/ /\ call.http.kind = "response"
       /\ ~clean_html(call.http.html).raised
       /\ call.value.url = call.url
       /\ call.value.status = call.http.status
       /\ call.value.title = clean_html(call.http.html).title
       /\ call.value.text = clean_html(call.http.html).text
       /\ call.value.fetched_at = call.at

\* C7 (as claimed): a fetch_url call for a url without a row, or whose row is
\* max_age_sec old or older, sends exactly one HTTP GET and returns what that
\* request gave (or the status-0 failure record).
C7_StaleNeverServed ==
    [][(/\ last'.op = "fetch_url"
        /\ (~HasRow(cache, last'.url)
            \/ Age(cache, now, last'.url) >= last'.max_age_sec))
       => (/\ ~last'.raised
           /\ last'.gets = 1
           /\ FromRequest(last'))]_vars

ExtractedText(http) ==
    IF clean_html(http.html).raised THEN <<>> ELSE clean_html(http.html).text
OnlyGoodRowsWritten ==
    [][last'.op = "fetch_url" =>
         \A u \in AllUrls : cache'[u] # cache[u] =>
             (u = last'.url /\ cache'[u] # NoRow
              /\ cache'[u].status = 200 /\ cache'[u].text # <<>>)]_vars

\* C8 (as claimed): on a completed HTTP response fetch_url writes to the cache
\* exactly when the status is 200 and the extracted text is non-empty.
C8_Original ==
    (last.op = "fetch_url" /\ last.http.kind = "response") =>
        (last.puts = 1 <=> (last.http.status = 200 /\ ExtractedText(last.http) # <<>>))

\* C8 (amended): on a completed HTTP response fetch_url calls cache_put exactly
\* when use_cache is true, the status is 200 and the extracted text is
\* non-empty, and every row a fetch_url call changes is the row of its url,
\* with status 200 and non-empty text.
C8_WritesOnlyGoodPages ==
    /\ [](last.op = "fetch_url" /\ last.http.kind = "response" =>
            (last.puts = 1 <=> (/\ last.use_cache
                                /\ last.http.status = 200
                                /\ ExtractedText(last.http) # <<>>)))
    /\ OnlyGoodRowsWritten

C8_Witness ==
    /\ last.op = "fetch_url" /\ last.use_cache /\ last.puts = 1 /\ ~last.raised
    /\ last.value.status = 200
    /\ cache[last.url] # NoRow /\ cache[last.url].fetched_at = last.at
    /\ cache[last.url].text = last.value.text

Stored == cache_get(cache, last.url)

\* C9 (as claimed): right after cache_put(url, page), cache_get(url) gives the
\* title, text, status, fetched_at and meta of page.
C9_Original ==
    last.op = "cache_put" =>
        /\ Stored # None
        /\ Stored.title = last.page.title
        /\ Stored.text = last.page.text
        /\ Stored.status = last.page.status
        /\ Stored.fetched_at = last.page.fetched_at
        /\ Stored.meta = last.page.meta

StringKeys(meta) == \A i \in 1..Len(meta) : meta[i].kt = "str"
Min(a, b) == IF a < b THEN a ELSE b

\* C9 (amended): right after cache_put(url, page), cache_get(url) gives the
\* text, status and fetched_at of page, its meta when the keys of meta are
\* strings, and the first 512 characters of its title.
C9_RoundTrip ==
    last.op = "cache_put" =>
        /\ Stored # None
        /\ Len(Stored.title) = Min(Len(last.page.title), TitleLimit)
        /\ \A i \in 1..Len(Stored.title) : Stored.title[i] = last.page.title[i]
        /\ Len(last.page.title) <= TitleLimit => Stored.title = last.page.title
        /\ Stored.text = last.page.text
        /\ Stored.status = last.page.status
        /\ Stored.fetched_at = last.page.fetched_at
        /\ StringKeys(last.page.meta) => Stored.meta = last.page.meta

C9_Witness ==
    /\ last.op = "cache_put"
    /\ Len(last.page.title) = TitleLimit + 1
    /\ Len(Stored.title) = TitleLimit

\* C10: is_fresh(fetched_at, max_age_sec) holds exactly when the age
\* now - fetched_at is strictly below max_age_sec: an entry as old as
\* max_age_sec is not fresh, and with max_age_sec = 0 nothing fetched at or
\* before now is fresh.
C10_FreshIsStrict ==
    last.op = "is_fresh" =>
        LET age == last.at - last.fetched_at IN
        /\ last.value.b <=> (last.fetched_at + last.max_age_sec > last.at)
        /\ age = last.max_age_sec => ~last.value.b
        /\ (last.max_age_sec = 0 /\ last.fetched_at <= last.at) => ~last.value.b
        /\ (age >= 0 /\ age + 1 = last.max_age_sec) => last.value.b

C10_Witness ==
    /\ last.op = "is_fresh" /\ last.max_age_sec > 0
    /\ last.at - last.fetched_at = last.max_age_sec
    /\ ~last.value.b

HasError(meta) == \E i \in 1..Len(meta) : meta[i].k = "error" /\ meta[i].v # ""

\* C11: when the HTTP GET fails at transport level, fetch_url does not raise
\* and returns the requested url with status 0, empty title and text,
\* fetched_at the current time and a meta with an error description; the cache
\* is left as it was.
C11_TransportFailure ==
    /\ [](last.op = "fetch_url" /\ last.http = HttpError =>
            /\ ~last.raised
            /\ last.gets = 1 /\ last.puts = 0
            /\ last.value.url = last.url
            /\ last.value.status = 0
            /\ last.value.title = <<>>
            /\ last.value.text = <<>>
            /\ last.value.fetched_at = last.at
            /\ HasError(last.value.meta))
    /\ [][(last'.op = "fetch_url" /\ last'.http = HttpError) => cache' = cache]_vars

\* A transport failure while the cache holds a stale row for the url.
C11_Witness ==
    /\ last.op = "fetch_url" /\ last.http = HttpError /\ last.use_cache
    /\ last.value.status = 0
    /\ cache[last.url] # NoRow
    /\ last.at - cache[last.url].fetched_at >= last.max_age_sec

\* C12: a call of an unknown tool does not raise: its result is
\* {error: "unknown tool <name>"}, the result is appended to the history as the
\* tool message of that call, sources and cache stay as they are and the loop
\* goes on with the next call or the next round.
C12_UnknownToolNotFatal ==
    [][(pc = "tools" /\ Head(pending).name \notin {"web_search", "fetch_url"}) =>
         LET call == Head(pending)
             payload == [error |-> <<"unknown tool ", call.name>>]
         IN /\ pc' # "tool_error"
            /\ Len(dispatched') = Len(dispatched) + 1
            /\ ~dispatched'[Len(dispatched')].raised
            /\ dispatched'[Len(dispatched')].result = payload
            /\ messages' = Append(messages, [role |-> "tool", tool_call_id |-> call.id,
                                             name |-> call.name, content |-> payload])
            /\ sources' = sources
            /\ cache' = cache
            /\ pending' = Tail(pending)
            /\ pc' = IF Tail(pending) = <<>> THEN "loop" ELSE "tools"
            /\ rounds' = rounds]_vars

\* An unknown tool was called in round 1 and the model was called again.
C12_Witness ==
    /\ rounds = 2 /\ pc = "done"
    /\ Len(dispatched) = 1 /\ dispatched[1].name = "bogus"
    /\ dispatched[1].result = [error |-> <<"unknown tool ", "bogus">>]
    /\ Len(messages) = 3 /\ messages[3].role = "tool"
    /\ sources = <<>>

(* ------------------------ direct calls of _call_tool -------------------- *)
\* Documents whose extracted text is one character longer than, and exactly
\* as long as, the snippet limit.
LongText == [i \in 1..(SnippetLimit + 1) |-> IF i > SnippetLimit THEN "y" ELSE "x"]
ExactText == Str(SnippetLimit, "x")
DocLong == Doc(<<"L">>, [kind |-> "text", s |-> LongText], LongText)
DocExact == Doc(<<"E">>, [kind |-> "text", s |-> ExactText], ExactText)
ToolEnvs ==
    {Env(FALSE, HttpError, TRUE), Env(TRUE, HttpError, TRUE),
     Env(TRUE, Resp(200, DocLong), TRUE), Env(TRUE, Resp(404, DocLong), TRUE),
     Env(TRUE, Resp(200, DocExact), TRUE), Env(TRUE, Resp(200, DocGood), TRUE)}
ToolEnvsFor(url) == IF url = NoUrl THEN {e \in ToolEnvs : e.http = HttpError} ELSE ToolEnvs

\* _call_tool(name, args_json), called on its own.  last.page keeps the request
\* and, for a fetch_url call that returned, what fetch_url gave to _call_tool.
CallToolCall ==
    \E req \in ToolRequests :
      \E env \in ToolEnvsFor(PyGet(req.arguments.obj, "url", NoUrl)) :
        LET out == _call_tool(cache, now, req.name, req.arguments, env)
            fetched == fetch_url(cache, now, PyGet(req.arguments.obj, "url", NoUrl),
                                 TRUE, DefaultMaxAge, env)
        IN /\ cache' = out.cache
           /\ last' = Call("_call_tool", PyGet(req.arguments.obj, "url", NoUrl), TRUE,
                           DefaultMaxAge,
                           [request |-> req,
                            fetched |-> IF req.name = "fetch_url" /\ ~out.raised
                                        THEN fetched.value ELSE None],
                           0, out, IF out.gets = 1 THEN env.http ELSE NoHttp)
           /\ UNCHANGED <<now, agentVars>>

NextTool ==
    \/ CallToolCall
    \/ CacheClearCall

SpecTool == Init /\ [][NextTool]_vars

\* C13: the text of a fetch_url tool result is the first 2000 characters of
\* the text fetch_url returned: as long as the shorter of the two, a prefix of
\* the text, and 2000 characters when the text is longer; url, status, title
\* and fetched_at are those of fetch_url and there is no meta.
C13_SnippetIsPrefix ==
    (last.op = "_call_tool" /\ last.page.request.name = "fetch_url" /\ ~last.raised) =>
        LET full == last.page.fetched
            res == last.value
        IN /\ Len(res.text) = Min(Len(full.text), SnippetLimit)
           /\ \A i \in 1..Len(res.text) : res.text[i] = full.text[i]
           /\ Len(full.text) > SnippetLimit => Len(res.text) = SnippetLimit
           /\ res.url = full.url
           /\ res.status = full.status
           /\ res.title = full.title
           /\ res.fetched_at = full.fetched_at
           /\ DOMAIN res = {"url", "status", "title", "text", "fetched_at"}
           /\ "meta" \in DOMAIN full

\* A page with 2001 characters of text came back as 2000 characters.
C13_Witness ==
    /\ last.op = "_call_tool" /\ last.page.request.name = "fetch_url" /\ ~last.raised
    /\ Len(last.page.fetched.text) = SnippetLimit + 1
    /\ Len(last.value.text) = SnippetLimit
    /\ last.value.text = ExactText

ToolMessages == SelectSeq(messages, LAMBDA msg : msg.role = "tool")
\* One tool message per requested call, in request order, tagged with the id
\* and the name of its call.
ResultsFedBack ==
    /\ Len(ToolMessages) = Len(requested)
    /\ \A i \in 1..Len(requested) :
          /\ ToolMessages[i].tool_call_id = requested[i].id
          /\ ToolMessages[i].name = requested[i].name
          /\ ToolMessages[i].content = dispatched[i].result

\* C14: whenever the model is called again, the history holds exactly one tool
\* message for each tool call requested so far, in request order, tagged with
\* the id and the name of its call, and no requested call is left undispatched;
\* calls are dispatched one at a time in request order.
C14_ResultsBeforeNextRound ==
    /\ [](pc = "loop" => (pending = <<>> /\ Len(dispatched) = Len(requested)
                          /\ ResultsFedBack))
    /\ [][rounds' # rounds => (pc = "loop" /\ pending = <<>> /\ ResultsFedBack)]_vars
    /\ [][dispatched' # dispatched =>
            (/\ Len(dispatched') = Len(dispatched) + 1
             /\ Len(dispatched') <= Len(requested)
             /\ dispatched'[Len(dispatched')].id = requested[Len(dispatched')].id
             /\ rounds' = rounds)]_vars

\* A second model call made after a round of two tool calls.
C14_Witness ==
    /\ rounds = 2 /\ Len(requested) >= 3 /\ pc = "tools"
    /\ Len(ToolMessages) = 2 /\ Len(messages) = 4
    /\ ToolMessages[1].tool_call_id = 1 /\ ToolMessages[2].tool_call_id = 2

\* C15 (as claimed): every tool message of the history comes after an
\* assistant message that requested the call it answers, the history being
\* system, user, then per round the assistant message and its tool messages.
C15_AssistantBeforeResults ==
    /\ Len(messages) >= 2 =>
          (messages[1].role = "system" /\ messages[2].role = "user")
    /\ \A i \in 1..Len(messages) :
          messages[i].role = "tool" =>
              \E j \in 1..(i - 1) :
                  /\ messages[j].role = "assistant"
                  /\ \E k \in 1..Len(messages[j].tool_calls) :
                        messages[j].tool_calls[k].id = messages[i].tool_call_id

Max0(n) == IF n < 0 THEN 0 ELSE n
Running == pc \in {"loop", "tools"}

C16_State ==
    /\ pc # "idle" => (rounds >= 0 /\ rounds <= Max0(max_rounds))
    /\ pc = "limit" => (rounds = Max0(max_rounds) /\ final = Fallback)
    /\ pc = "done" => (final # Fallback /\ response.tool_calls = <<>>)
    /\ (pc # "idle" /\ max_rounds <= 0) =>
          (rounds = 0 /\ sources = <<>> /\ dispatched = <<>> /\ pc \in {"loop", "limit"})
    /\ Running => ENABLED (ModelAnswers \/ HandleToolCall \/ RoundLimit)
\* Every step of a running conversation uses up a round or a pending call, or
\* ends the conversation; an ended conversation stays as it is.
C16_Step ==
    /\ Running =>
          \/ rounds' = rounds + 1
          \/ (rounds' = rounds /\ Len(pending') < Len(pending))
          \/ pc' \in {"limit", "tool_error"}
    /\ Ended => UNCHANGED <<pc, rounds, final, sources>>

\* C16: whatever the model answers, the model is called at most max_rounds
\* times (never, when max_rounds <= 0, the fallback being returned with no
\* sources), and as long as every model call and dispatch returns, the
\* conversation moves on until it ends in exactly one of DONE and
\* ROUND_LIMIT_EXCEEDED.
C16_BoundedRounds == []C16_State /\ [][C16_Step]_vars

C16_Witness ==
    /\ pc = "limit" /\ max_rounds = -1 /\ rounds = 0
    /\ final = Fallback /\ sources = <<>>

\* C19: when the response of the last permitted round asks for tools, every
\* call is dispatched, with its effect on the cache, and every non-empty url
\* of a fetch_url result is in sources when the fallback is returned; the tool
\* messages are in the history, and the model is not called again.
C19_LastRoundCallsRun ==
    /\ [](pc = "limit" /\ max_rounds > 0 =>
            /\ rounds = max_rounds
            /\ response.tool_calls # <<>>
            /\ pending = <<>>
            /\ Len(dispatched) = Len(requested)
            /\ \A i \in 1..Len(dispatched) : ~dispatched[i].raised
            /\ sources = FetchedUrls(dispatched)
            /\ ResultsFedBack
            /\ \A i \in 1..Len(dispatched) :
                  (/\ dispatched[i].gets = 1
                   /\ dispatched[i].result.status = 200
                   /\ dispatched[i].result.text # <<>>) =>
                      /\ dispatched[i].puts = 1
                      /\ cache[dispatched[i].result.url] # NoRow
                      /\ cache[dispatched[i].result.url].text = dispatched[i].result.text)
    /\ [][pc = "limit" => UNCHANGED <<rounds, messages, dispatched, sources, cache>>]_vars

\* The single permitted round asked for fetch_url on A and B; both were
\* fetched and cached before the fallback was returned.
C19_Witness ==
    /\ pc = "limit" /\ max_rounds = 1 /\ rounds = 1
    /\ sources = <<"A", "B">>
    /\ dispatched[1].gets = 1 /\ dispatched[2].gets = 1
    /\ cache["A"] # NoRow /\ cache["B"] # NoRow
    /\ final = Fallback

(* ------------------------ direct calls of clean_html -------------------- *)
Docs == {DocGood, DocNav, DocEmpty, DocBoom}

\* clean_html(html), called on its own; last.page keeps the document.
CleanHtmlCall ==
    \E html \in Docs :
        LET cleaned == clean_html(html) IN
        /\ last' = Call("clean_html", NoUrl, FALSE, 0, html, 0,
                        Outcome(cleaned.raised,
                                [title |-> cleaned.title, text |-> cleaned.text],
                                cache, 0, 0), NoHttp)
        /\ UNCHANGED <<cache, now, agentVars>>

\* clean_html on its own, next to the tool calls that reach it through
\* fetch_url.
NextHtml ==
    \/ CleanHtmlCall
    \/ NextTool

SpecHtml == Init /\ [][NextHtml]_vars

Empty(c) == \A u \in AllUrls : c[u] = NoRow

\* C17: no call but cache_clear removes a row (a fetch that fails, gets a
\* status other than 200 or extracts no text keeps the stale row of its url),
\* and after cache_clear every cache_get gives None until a cache_put or a
\* caching fetch_url writes a row.
C17_OnlyClearRemoves ==
    /\ [][last'.op # "cache_clear" =>
            \A u \in AllUrls : cache[u] # NoRow => cache'[u] # NoRow]_vars
    /\ [](last.op = "cache_clear" => \A u \in AllUrls : cache_get(cache, u) = None)
    /\ [][(Empty(cache) /\ ~Empty(cache')) =>
            (last'.op = "cache_put" \/ (last'.op = "fetch_url" /\ last'.puts = 1))]_vars
    /\ [](last.op = "cache_get" /\ Empty(cache) => last.value = None)

\* A fetch that failed or was not cachable, made while the url had a stale
\* row, which is still there.
C17_Witness ==
    /\ last.op = "fetch_url" /\ last.use_cache /\ last.gets = 1 /\ ~last.raised
    /\ (last.value.status # 200 \/ last.value.text = <<>>)
    /\ cache[last.url] # NoRow
    /\ last.at - cache[last.url].fetched_at >= last.max_age_sec

\* C18 (as claimed): clean_html never raises, and when the extractor gives no
\* text or fails, the text returned is that of the tag-stripping pass.
C18_CleanHtmlFallsBack ==
    last.op = "clean_html" =>
        /\ ~last.raised
        /\ (last.page.main = Raises \/ last.page.main.s = <<>>) =>
              last.value.text = last.page.stripped

\* C20: a fetch_url call with use_cache false does not read the cache (a
\* failing or a fresh cache changes nothing), sends its HTTP GET, and leaves
\* the cache as it was, whatever the response.
C20_NoCacheUse ==
    /\ [][(last'.op = "fetch_url" /\ ~last'.use_cache) => cache' = cache]_vars
    /\ [](last.op = "fetch_url" /\ ~last.use_cache =>
            (~last.raised /\ last.gets = 1 /\ last.puts = 0 /\ FromRequest(last)))

\* A 200 response with text, fetched with use_cache false while the cache held
\* a fresh row for the url: the row is still the old one.
C20_Witness ==
    /\ last.op = "fetch_url" /\ ~last.use_cache /\ last.gets = 1
    /\ last.value.status = 200 /\ last.value.text = <<"x">>
    /\ cache[last.url] # NoRow
    /\ last.at - cache[last.url].fetched_at < last.max_age_sec
    /\ cache[last.url].text = <<"h", "i">>

====
